---------------------------- MODULE Spec2Model ----------------------------
(***************************************************************************)
(* The decision engine of the personal delta bot (src/server.js): the      *)
(* TradingBot object, the two DeltaAPI calls it awaits, and the JavaScript *)
(* timer that drives its cycles.                                           *)
(*                                                                         *)
(* JavaScript runs one handler at a time, so every action below is one run *)
(* of a handler from its entry (or from the await it resumes at) to the    *)
(* next await or to its end.  Numbers are exact rationals [n, d] (d > 0,   *)
(* lowest terms); floating-point rounding is not modelled.  Every handler  *)
(* run reads the clock once: `now` is the value of new Date() in it, and   *)
(* time 0 is the moment the checked run begins.  `emitted` and `orders`    *)
(* record what the bot has sent out since then.                            *)
(***************************************************************************)
EXTENDS Integers, Sequences, FiniteSets, TLC

VARIABLES
    status,        \* this.status: "stopped" | "running"
    currentDelta,  \* this.currentDelta (deltaPercentage of the last applied cycle)
    ethValue,      \* this.ethValue (notional of the last applied cycle)
    totalTrades,   \* this.totalTrades
    lastCheck,     \* this.lastCheck: Null or a time
    settings,      \* this.settings
    deltaHistory,  \* this.deltaHistory, oldest first
    trades,        \* this.trades, newest first
    logs,          \* this.logs, newest first
    interval,      \* this.interval: Null or the id setInterval returned
    timers,        \* the runtime's armed interval timers: [id, delay]
    nextTimerId,   \* the id the next setInterval returns
    cycles,        \* the checkAndHedge calls suspended at an await
    emitted,       \* what io.emit has been called with, in order
    orders,        \* the order requests posted to the exchange, in order
    now,           \* the clock: one unit per handler run
    last           \* the handler that ran last, and what it was called with

vars == <<status, currentDelta, ethValue, totalTrades, lastCheck, settings,
          deltaHistory, trades, logs, interval, timers, nextTimerId, cycles,
          emitted, orders, now, last>>

\* ------------------------------------------------------------------ bounds

\* The number of handler runs in one run (the clock then stops).
MaxTime == 5

\* The number of updateSettings requests in one run.
MaxUpdates == 1

\* The number of cycles begun in one run.
MaxCycles == 2

\* The number of handler runs in one run of a bot that has run long before.
MaxLongTime == 3

\* ------------------------------------------------------- program constants

HistoryCap == 100
TradesCap == 50
LogsCap == 200

\* ----------------------------------------------------------------- numbers

Abs(x) == IF x < 0 THEN -x ELSE x

RECURSIVE GCD(_, _)
GCD(a, b) == IF b = 0 THEN a ELSE GCD(b, a % b)

\* The rational n/d in lowest terms with a positive denominator.
Rat(n, d) ==
    LET s == IF d < 0 THEN -1 ELSE 1
        g == GCD(Abs(n), Abs(d))
    IN  [n |-> (s * n) \div g, d |-> (s * d) \div g]

Zero == [n |-> 0, d |-> 1]
Int2Rat(i) == [n |-> i, d |-> 1]
RAdd(a, b) == Rat(a.n * b.d + b.n * a.d, a.d * b.d)
RMul(a, b) == Rat(a.n * b.n, a.d * b.d)
RDiv(a, b) == Rat(a.n * b.d, a.d * b.n)
RNeg(a) == [n |-> -a.n, d |-> a.d]
RAbs(a) == [n |-> Abs(a.n), d |-> a.d]
RLt(a, b) == a.n * b.d < b.n * a.d
RGe(a, b) == ~RLt(a, b)
RGt(a, b) == RLt(b, a)

RECURSIVE Pow10(_)
Pow10(k) == IF k = 0 THEN 1 ELSE 10 * Pow10(k - 1)

\* Number.prototype.toFixed(f): the digits of |x| * 10^f rounded to the nearest
\* integer (ties upward), and the sign of x.
toFixed(x, f) ==
    LET a == RAbs(x)
    IN  [neg |-> x.n < 0,
         digits |-> (2 * a.n * Pow10(f) + a.d) \div (2 * a.d),
         f |-> f]

\* A property that is absent from a JavaScript object (or NaN, or null where a
\* number is expected): it is falsy, like 0.
Undefined == [n |-> 0, d |-> 0]

\* JavaScript's truthiness of a number or of a missing value.
Truthy(v) == v.d # 0 /\ v.n # 0

\* v || 0
OrZero(v) == IF Truthy(v) THEN v ELSE Zero

\* null, or a value: the empty tuple or a one-element tuple.
Null == <<>>
Some(x) == <<x>>
IsNull(o) == Len(o) = 0

\* ------------------------------------------------------- the whole state

\* The state as one record, so that a method is a function from state to state
\* and a method calling another composes them.
World ==
    [status |-> status, currentDelta |-> currentDelta, ethValue |-> ethValue,
     totalTrades |-> totalTrades, lastCheck |-> lastCheck, settings |-> settings,
     deltaHistory |-> deltaHistory, trades |-> trades, logs |-> logs,
     interval |-> interval, timers |-> timers, nextTimerId |-> nextTimerId,
     cycles |-> cycles, emitted |-> emitted, orders |-> orders, now |-> now]

\* The next state is the record w.
Becomes(w) ==
    /\ status' = w.status
    /\ currentDelta' = w.currentDelta
    /\ ethValue' = w.ethValue
    /\ totalTrades' = w.totalTrades
    /\ lastCheck' = w.lastCheck
    /\ settings' = w.settings
    /\ deltaHistory' = w.deltaHistory
    /\ trades' = w.trades
    /\ logs' = w.logs
    /\ interval' = w.interval
    /\ timers' = w.timers
    /\ nextTimerId' = w.nextTimerId
    /\ cycles' = w.cycles
    /\ emitted' = w.emitted
    /\ orders' = w.orders
    /\ now' = w.now

\* The state is the record w.
Is(w) ==
    /\ status = w.status
    /\ currentDelta = w.currentDelta
    /\ ethValue = w.ethValue
    /\ totalTrades = w.totalTrades
    /\ lastCheck = w.lastCheck
    /\ settings = w.settings
    /\ deltaHistory = w.deltaHistory
    /\ trades = w.trades
    /\ logs = w.logs
    /\ interval = w.interval
    /\ timers = w.timers
    /\ nextTimerId = w.nextTimerId
    /\ cycles = w.cycles
    /\ emitted = w.emitted
    /\ orders = w.orders
    /\ now = w.now

\* A handler run begins: the clock has advanced since the previous one.
Enter(w) == [w EXCEPT !.now = @ + 1]

\* ------------------------------------------------------------ the buffers

\* HistoryPush with pop() for shift(): the newest snapshot is dropped.
HistoryPushPop(h, e) ==
    LET pushed == Append(h, e)
    IN  IF Len(pushed) > HistoryCap
        THEN SubSeq(pushed, 1, Len(pushed) - 1)
        ELSE pushed

\* this.deltaHistory.push(e); if (length > 100) shift()
HistoryPush(h, e) ==
    LET pushed == Append(h, e)
    IN  IF Len(pushed) > HistoryCap THEN Tail(pushed) ELSE pushed

\* TradesUnshift with shift() for pop(): the newest trade is dropped.
TradesUnshiftShift(t, e) ==
    LET unshifted == <<e>> \o t
    IN  IF Len(unshifted) > TradesCap THEN Tail(unshifted) ELSE unshifted

\* this.trades.unshift(e); if (length > 50) pop()
TradesUnshift(t, e) ==
    LET unshifted == <<e>> \o t
    IN  IF Len(unshifted) > TradesCap
        THEN SubSeq(unshifted, 1, Len(unshifted) - 1)
        ELSE unshifted

\* LogsUnshift with >= for >: the log is cut one entry early.
LogsUnshiftEarly(l, e) ==
    LET unshifted == <<e>> \o l
    IN  IF Len(unshifted) >= LogsCap
        THEN SubSeq(unshifted, 1, Len(unshifted) - 1)
        ELSE unshifted

\* this.logs.unshift(e); if (length > 200) pop()
LogsUnshift(l, e) ==
    LET unshifted == <<e>> \o l
    IN  IF Len(unshifted) > LogsCap
        THEN SubSeq(unshifted, 1, Len(unshifted) - 1)
        ELSE unshifted

\* this.io.emit(name, payload)
emit(w, event) == [w EXCEPT !.emitted = Append(@, event)]

\* A log message: the template's fixed text and the numbers formatted into it.
Msg(text, args) == [text |-> text, args |-> args]

log(w, level, message) ==
    LET logEntry == [level |-> level, message |-> message, createdAt |-> w.now]
        w1 == [w EXCEPT !.logs = LogsUnshift(@, logEntry)]
    IN  emit(w1, [name |-> "log", level |-> level, message |-> message,
                  time |-> w.now])

\* ------------------------------------------------------------- the timer

\* setInterval(callback, delay): arms a timer and returns its id.
setInterval(w, delay) ==
    [w EXCEPT !.timers = @ \cup {[id |-> w.nextTimerId, delay |-> delay]},
              !.interval = Some(w.nextTimerId),
              !.nextTimerId = @ + 1]

\* clearInterval(id)
clearInterval(w, id) == [w EXCEPT !.timers = {t \in @ : t.id # id}]

\* ---------------------------------------------------------- the exchange

\* DeltaAPI.getPositions: what the awaited call returns for a response of the
\* exchange.  resp.ok is false for a transport, timeout or HTTP error;
\* resp.hasResult is false when the body has no (or a falsy) `result`.
getPositions(resp) ==
    IF resp.ok
    THEN [null |-> FALSE, list |-> IF resp.hasResult THEN resp.result ELSE <<>>]
    ELSE [null |-> TRUE, list |-> <<>>]

\* DeltaAPI.placeFutureOrder up to its await: the request it posts.
placeFutureOrder(w, productId, size, side) ==
    [w EXCEPT !.orders =
        Append(@, [product_id |-> productId, size |-> RAbs(size), side |-> side,
                   order_type |-> "market_order", time_in_force |-> "ioc"])]

\* DeltaAPI.placeFutureOrder after its await: what it returns.
OrderResult(posted) == [success |-> posted]

\* ------------------------------------------------------------- the cycle

\* PositionDelta that counts an option at its size, as if it were a future.
PositionDeltaSizeOnly(position) ==
    LET size == OrZero(position.size)
    IN  IF position.product_type \in {"future", "call_options", "put_options"}
        THEN size
        ELSE Zero

\* The contribution of one position to the delta and to the notional.
PositionDelta(position) ==
    LET size == OrZero(position.size)
        delta == OrZero(position.delta)
    IN  IF position.product_type = "future" THEN size
        ELSE IF position.product_type \in {"call_options", "put_options"}
             THEN RMul(size, delta)
             ELSE Zero

PositionValue(position) ==
    RMul(RAbs(OrZero(position.size)), OrZero(position.mark_price))

RECURSIVE SumDelta(_)
SumDelta(positions) ==
    IF positions = <<>> THEN Zero
    ELSE RAdd(SumDelta(SubSeq(positions, 1, Len(positions) - 1)),
              PositionDelta(positions[Len(positions)]))

RECURSIVE SumValue(_)
SumValue(positions) ==
    IF positions = <<>> THEN Zero
    ELSE RAdd(SumValue(SubSeq(positions, 1, Len(positions) - 1)),
              PositionValue(positions[Len(positions)]))

\* calculatePortfolioDelta: reading a field of a null position throws.
calculatePortfolioDelta(positions) ==
    IF \E i \in 1..Len(positions) : positions[i].null
    THEN [threw |-> TRUE, deltaPercentage |-> Zero, totalDelta |-> Zero,
          ethValue |-> Zero]
    ELSE LET totalDelta == SumDelta(positions)
             value == SumValue(positions)
         IN  [threw |-> FALSE,
              deltaPercentage |-> IF RGt(value, Zero)
                                  THEN RDiv(totalDelta, value) ELSE Zero,
              totalDelta |-> totalDelta,
              ethValue |-> value]

\* Breached with > for >=.
BreachedStrict(delta, s) == RGt(RAbs(delta), s.deltaThreshold)

\* Math.abs(this.currentDelta) >= this.settings.deltaThreshold
Breached(delta, s) == RGe(RAbs(delta), s.deltaThreshold)

\* Math.abs(hedgeSize) < this.settings.minHedgeSize
TooSmall(hedgeSize, s) == RLt(RAbs(hedgeSize), s.minHedgeSize)

\* A checkAndHedge call suspended at an await, with the locals it resumes with.
Suspended(started, pc, side, hedgeSize, delta) ==
    [started |-> started, pc |-> pc, side |-> side, hedgeSize |-> hedgeSize,
     currentDelta |-> delta]

Percent(x) == toFixed(RMul(x, Int2Rat(100)), 2)

\* executeHedge with `hedgeSize = currentDelta`: the order adds to the exposure.
executeHedgeUnnegated(w, started, delta) ==
    LET hedgeSize == delta
        side == IF RGt(hedgeSize, Zero) THEN "buy" ELSE "sell"
    IN  IF TooSmall(hedgeSize, w.settings)
        THEN log(w, "INFO",
                 Msg("Hedge size too small", <<toFixed(RAbs(hedgeSize), 4)>>))
        ELSE LET w1 == log(w, "WARNING",
                           Msg("Delta threshold breached!", <<Percent(delta)>>))
                 w2 == log(w1, "INFO",
                           Msg(IF side = "buy" THEN "Executing hedge: BUY"
                                               ELSE "Executing hedge: SELL",
                               <<toFixed(RAbs(hedgeSize), 4)>>))
                 w3 == placeFutureOrder(w2, w2.settings.ethFutureProductId,
                                        RAbs(hedgeSize), side)
             IN  [w3 EXCEPT !.cycles = @ \cup
                    {Suspended(started, "placeFutureOrder", side, hedgeSize, delta)}]

\* executeHedge(currentDelta) within the cycle that began at `started`, up to
\* the await of placeFutureOrder.
executeHedge(w, started, delta) ==
    LET hedgeSize == RNeg(delta)
        side == IF RGt(hedgeSize, Zero) THEN "buy" ELSE "sell"
    IN  IF TooSmall(hedgeSize, w.settings)
        THEN log(w, "INFO",
                 Msg("Hedge size too small", <<toFixed(RAbs(hedgeSize), 4)>>))
        ELSE LET w1 == log(w, "WARNING",
                           Msg("Delta threshold breached!", <<Percent(delta)>>))
                 w2 == log(w1, "INFO",
                           Msg(IF side = "buy" THEN "Executing hedge: BUY"
                                               ELSE "Executing hedge: SELL",
                               <<toFixed(RAbs(hedgeSize), 4)>>))
                 w3 == placeFutureOrder(w2, w2.settings.ethFutureProductId,
                                        RAbs(hedgeSize), side)
             IN  [w3 EXCEPT !.cycles = @ \cup
                    {Suspended(started, "placeFutureOrder", side, hedgeSize, delta)}]

\* executeHedgeResume with `if (order)` for `if (order && order.success)`.
executeHedgeResumeUnchecked(w, c, order) ==
    LET w0 == [w EXCEPT !.cycles = @ \ {c}]
        w1 == log(w0, "INFO", Msg("Hedge successful!", <<>>))
        w2 == [w1 EXCEPT !.totalTrades = @ + 1]
        w3 == [w2 EXCEPT !.trades = TradesUnshift(@,
                 [side |-> c.side, hedgeSize |-> c.hedgeSize,
                  currentDelta |-> c.currentDelta,
                  orderResponse |-> order, createdAt |-> w.now])]
    IN  emit(w3, [name |-> "tradeExecuted", side |-> c.side,
                  size |-> RAbs(c.hedgeSize),
                  deltaBefore |-> c.currentDelta,
                  totalTrades |-> w3.totalTrades])

\* executeHedgeResume that posts the order again when the placement failed.
executeHedgeResumeRetrying(w, c, order) ==
    LET w0 == [w EXCEPT !.cycles = @ \ {c}]
    IN  IF order.success
        THEN LET w1 == log(w0, "INFO", Msg("Hedge successful!", <<>>))
                 w2 == [w1 EXCEPT !.totalTrades = @ + 1]
                 w3 == [w2 EXCEPT !.trades = TradesUnshift(@,
                          [side |-> c.side, hedgeSize |-> c.hedgeSize,
                           currentDelta |-> c.currentDelta,
                           orderResponse |-> order, createdAt |-> w.now])]
             IN  emit(w3, [name |-> "tradeExecuted", side |-> c.side,
                           size |-> RAbs(c.hedgeSize),
                           deltaBefore |-> c.currentDelta,
                           totalTrades |-> w3.totalTrades])
        ELSE LET w1 == log(w, "ERROR", Msg("Hedge failed!", <<>>))
             IN  placeFutureOrder(w1, w1.settings.ethFutureProductId,
                                  RAbs(c.hedgeSize), c.side)

\* executeHedgeResume that stops the bot when the placement failed.
executeHedgeResumeStopping(w, c, order) ==
    LET w0 == [w EXCEPT !.cycles = @ \ {c}]
    IN  IF order.success
        THEN LET w1 == log(w0, "INFO", Msg("Hedge successful!", <<>>))
                 w2 == [w1 EXCEPT !.totalTrades = @ + 1]
                 w3 == [w2 EXCEPT !.trades = TradesUnshift(@,
                          [side |-> c.side, hedgeSize |-> c.hedgeSize,
                           currentDelta |-> c.currentDelta,
                           orderResponse |-> order, createdAt |-> w.now])]
             IN  emit(w3, [name |-> "tradeExecuted", side |-> c.side,
                           size |-> RAbs(c.hedgeSize),
                           deltaBefore |-> c.currentDelta,
                           totalTrades |-> w3.totalTrades])
        ELSE LET w1 == log(w0, "ERROR", Msg("Hedge failed!", <<>>))
                 w2 == IF ~IsNull(w1.interval)
                       THEN [clearInterval(w1, w1.interval[1]) EXCEPT
                                !.interval = Null]
                       ELSE w1
             IN  [w2 EXCEPT !.status = "stopped"]

\* executeHedgeResume without `this.totalTrades++`.
executeHedgeResumeUncounted(w, c, order) ==
    LET w0 == [w EXCEPT !.cycles = @ \ {c}]
    IN  IF order.success
        THEN LET w1 == log(w0, "INFO", Msg("Hedge successful!", <<>>))
                 w3 == [w1 EXCEPT !.trades = TradesUnshift(@,
                          [side |-> c.side, hedgeSize |-> c.hedgeSize,
                           currentDelta |-> c.currentDelta,
                           orderResponse |-> order, createdAt |-> w.now])]
             IN  emit(w3, [name |-> "tradeExecuted", side |-> c.side,
                           size |-> RAbs(c.hedgeSize),
                           deltaBefore |-> c.currentDelta,
                           totalTrades |-> w3.totalTrades])
        ELSE log(w0, "ERROR", Msg("Hedge failed!", <<>>))

\* executeHedge from the return of placeFutureOrder to its end.
executeHedgeResume(w, c, order) ==
    LET w0 == [w EXCEPT !.cycles = @ \ {c}]
    IN  IF order.success
        THEN LET w1 == log(w0, "INFO", Msg("Hedge successful!", <<>>))
                 w2 == [w1 EXCEPT !.totalTrades = @ + 1]
                 w3 == [w2 EXCEPT !.trades = TradesUnshift(@,
                          [side |-> c.side, hedgeSize |-> c.hedgeSize,
                           currentDelta |-> c.currentDelta,
                           orderResponse |-> order, createdAt |-> w.now])]
             IN  emit(w3, [name |-> "tradeExecuted", side |-> c.side,
                           size |-> RAbs(c.hedgeSize),
                           deltaBefore |-> c.currentDelta,
                           totalTrades |-> w3.totalTrades])
        ELSE log(w0, "ERROR", Msg("Hedge failed!", <<>>))

\* checkAndHedge up to the await of getPositions.
checkAndHedge(w) ==
    LET w1 == log(w, "INFO", Msg("Checking positions...", <<>>))
    IN  [w1 EXCEPT !.cycles = @ \cup
            {Suspended(w.now, "getPositions", "", Zero, Zero)}]

\* checkAndHedgeResume without the early return on `!positions ||
\* positions.length === 0`: a failed fetch is computed as no positions.
checkAndHedgeResumeUnguarded(w, c, positions) ==
    LET w0 == [w EXCEPT !.cycles = @ \ {c}]
        deltaInfo == calculatePortfolioDelta(positions.list)
        w1 == [w0 EXCEPT !.currentDelta = deltaInfo.deltaPercentage,
                         !.ethValue = deltaInfo.ethValue,
                         !.lastCheck = Some(w.now)]
        w2 == [w1 EXCEPT !.deltaHistory = HistoryPush(@,
                 [deltaPercentage |-> w1.currentDelta,
                  totalDelta |-> deltaInfo.totalDelta,
                  ethValue |-> w1.ethValue,
                  positionsCount |-> Len(positions.list),
                  createdAt |-> w.now])]
        w3 == log(w2, "INFO",
                  Msg("Delta", <<Percent(w2.currentDelta),
                                 toFixed(w2.ethValue, 2)>>))
        w4 == emit(w3, [name |-> "deltaUpdate", delta |-> w3.currentDelta,
                        ethValue |-> w3.ethValue,
                        lastCheck |-> w3.lastCheck])
    IN  IF deltaInfo.threw
        THEN log(w0, "ERROR", Msg("Error", <<>>))
        ELSE IF Breached(w4.currentDelta, w4.settings)
        THEN executeHedge(w4, c.started, deltaInfo.totalDelta)
        ELSE log(w4, "INFO",
                 Msg("Delta within range", <<Percent(w4.currentDelta)>>))

\* checkAndHedgeResume that awaits getPositions again when the fetch failed.
checkAndHedgeResumeRefetching(w, c, positions) ==
    LET w0 == [w EXCEPT !.cycles = @ \ {c}]
        deltaInfo == calculatePortfolioDelta(positions.list)
    IN  IF positions.null
        THEN log(w, "ERROR", Msg("Error", <<>>))
        ELSE IF Len(positions.list) = 0
        THEN log(w0, "INFO", Msg("No open positions", <<>>))
        ELSE IF deltaInfo.threw
        THEN log(w0, "ERROR", Msg("Error", <<>>))
        ELSE LET w1 == [w0 EXCEPT !.currentDelta = deltaInfo.deltaPercentage,
                                  !.ethValue = deltaInfo.ethValue,
                                  !.lastCheck = Some(w.now)]
                 w2 == [w1 EXCEPT !.deltaHistory = HistoryPush(@,
                          [deltaPercentage |-> w1.currentDelta,
                           totalDelta |-> deltaInfo.totalDelta,
                           ethValue |-> w1.ethValue,
                           positionsCount |-> Len(positions.list),
                           createdAt |-> w.now])]
                 w3 == log(w2, "INFO",
                           Msg("Delta", <<Percent(w2.currentDelta),
                                          toFixed(w2.ethValue, 2)>>))
                 w4 == emit(w3, [name |-> "deltaUpdate", delta |-> w3.currentDelta,
                                 ethValue |-> w3.ethValue,
                                 lastCheck |-> w3.lastCheck])
             IN  IF Breached(w4.currentDelta, w4.settings)
                 THEN executeHedge(w4, c.started, deltaInfo.totalDelta)
                 ELSE log(w4, "INFO",
                          Msg("Delta within range", <<Percent(w4.currentDelta)>>))

\* checkAndHedge from the return of getPositions to the next await or its end.
checkAndHedgeResume(w, c, positions) ==
    LET w0 == [w EXCEPT !.cycles = @ \ {c}]
        deltaInfo == calculatePortfolioDelta(positions.list)
    IN  IF positions.null \/ Len(positions.list) = 0
        THEN log(w0, "INFO", Msg("No open positions", <<>>))
        ELSE IF deltaInfo.threw
        THEN log(w0, "ERROR", Msg("Error", <<>>))
        ELSE LET w1 == [w0 EXCEPT !.currentDelta = deltaInfo.deltaPercentage,
                                  !.ethValue = deltaInfo.ethValue,
                                  !.lastCheck = Some(w.now)]
                 w2 == [w1 EXCEPT !.deltaHistory = HistoryPush(@,
                          [deltaPercentage |-> w1.currentDelta,
                           totalDelta |-> deltaInfo.totalDelta,
                           ethValue |-> w1.ethValue,
                           positionsCount |-> Len(positions.list),
                           createdAt |-> w.now])]
                 w3 == log(w2, "INFO",
                           Msg("Delta", <<Percent(w2.currentDelta),
                                          toFixed(w2.ethValue, 2)>>))
                 w4 == emit(w3, [name |-> "deltaUpdate", delta |-> w3.currentDelta,
                                 ethValue |-> w3.ethValue,
                                 lastCheck |-> w3.lastCheck])
             IN  IF Breached(w4.currentDelta, w4.settings)
                 THEN executeHedge(w4, c.started, deltaInfo.totalDelta)
                 ELSE log(w4, "INFO",
                          Msg("Delta within range", <<Percent(w4.currentDelta)>>))

\* --------------------------------------------------------- the lifecycle

\* start without the guard on status.
startUnguarded(w) ==
    LET w1 == [w EXCEPT !.status = "running"]
        w2 == log(w1, "INFO", Msg("Personal bot started", <<>>))
        w3 == setInterval(w2, w2.settings.checkInterval)
    IN  checkAndHedge(w3)

\* start without the immediate cycle.
startWithoutCycle(w) ==
    IF w.status = "running" THEN w
    ELSE LET w1 == [w EXCEPT !.status = "running"]
             w2 == log(w1, "INFO", Msg("Personal bot started", <<>>))
         IN  setInterval(w2, w2.settings.checkInterval)

start(w) ==
    IF w.status = "running" THEN w
    ELSE LET w1 == [w EXCEPT !.status = "running"]
             w2 == log(w1, "INFO", Msg("Personal bot started", <<>>))
             w3 == setInterval(w2, w2.settings.checkInterval)
         IN  checkAndHedge(w3)

\* stop without clearInterval.
stopWithoutClear(w) ==
    LET w1 == [w EXCEPT !.interval = Null]
        w2 == [w1 EXCEPT !.status = "stopped"]
    IN  log(w2, "INFO", Msg("Bot stopped", <<>>))

stop(w) ==
    LET w1 == IF ~IsNull(w.interval)
              THEN [clearInterval(w, w.interval[1]) EXCEPT !.interval = Null]
              ELSE w
        w2 == [w1 EXCEPT !.status = "stopped"]
    IN  log(w2, "INFO", Msg("Bot stopped", <<>>))

\* updateSettings that calls start() without stop() when the interval changes.
updateSettingsWithoutStop(w, newSettings) ==
    LET w1 == IF Truthy(newSettings.deltaThreshold)
              THEN [w EXCEPT !.settings.deltaThreshold = newSettings.deltaThreshold]
              ELSE w
        w2 == IF Truthy(newSettings.checkInterval)
              THEN LET u == [w1 EXCEPT !.settings.checkInterval =
                                            newSettings.checkInterval]
                   IN  IF u.status = "running" THEN start(u) ELSE u
              ELSE w1
        w3 == IF Truthy(newSettings.minHedgeSize)
              THEN [w2 EXCEPT !.settings.minHedgeSize = newSettings.minHedgeSize]
              ELSE w2
    IN  log(w3, "INFO", Msg("Settings updated", <<>>))

updateSettings(w, newSettings) ==
    LET w1 == IF Truthy(newSettings.deltaThreshold)
              THEN [w EXCEPT !.settings.deltaThreshold = newSettings.deltaThreshold]
              ELSE w
        w2 == IF Truthy(newSettings.checkInterval)
              THEN LET u == [w1 EXCEPT !.settings.checkInterval =
                                            newSettings.checkInterval]
                   IN  IF u.status = "running" THEN start(stop(u)) ELSE u
              ELSE w1
        w3 == IF Truthy(newSettings.minHedgeSize)
              THEN [w2 EXCEPT !.settings.minHedgeSize = newSettings.minHedgeSize]
              ELSE w2
    IN  log(w3, "INFO", Msg("Settings updated", <<>>))

\* --------------------------------------------------------- the accessors

\* Array.prototype.slice(begin, end) of a sequence: the elements at the
\* 0-based indices from `begin` up to but not including `end`, where a
\* negative index counts back from the end of the sequence (and -0 is 0).
slice(a, begin, end) ==
    LET len == Len(a)
        from == IF begin < 0
                THEN (IF len + begin < 0 THEN 0 ELSE len + begin)
                ELSE (IF begin > len THEN len ELSE begin)
        to == IF end < 0
              THEN (IF len + end < 0 THEN 0 ELSE len + end)
              ELSE (IF end > len THEN len ELSE end)
    IN  SubSeq(a, from + 1, to)

getRecentTrades(w, limit) == slice(w.trades, 0, limit)

\* slice(-limit) has no `end`: it runs to the end of the array.
getDeltaHistory(w, limit) == slice(w.deltaHistory, -limit, Len(w.deltaHistory))

getRecentLogs(w, limit) == slice(w.logs, 0, limit)

\* -------------------------------------------------------------- inputs

Future(size, mark) ==
    [null |-> FALSE, size |-> size, delta |-> Zero, product_type |-> "future",
     mark_price |-> mark]
Option(type, size, delta, mark) ==
    [null |-> FALSE, size |-> size, delta |-> delta, product_type |-> type,
     mark_price |-> mark]
NullPosition ==
    [null |-> TRUE, size |-> Undefined, delta |-> Undefined, product_type |-> "",
     mark_price |-> Undefined]

\* The position lists the exchange answers with.  With the default settings
\* (threshold 0.15, minimum hedge 0.01) they lie below, at and above each of
\* the two thresholds.
PositionLists ==
    { <<Future(Int2Rat(2), Int2Rat(100)),
        Option("call_options", Int2Rat(1), Rat(1, 2), Int2Rat(200))>>,  \* 0.625 %
      <<Option("call_options", Int2Rat(1), Rat(3, 20), Int2Rat(1))>>,   \* 15 %
      <<Option("put_options", Rat(1, 200), Int2Rat(-1), Int2Rat(1))>>,  \* -100 %, 0.005
      <<Option("put_options", Rat(1, 100), Int2Rat(-1), Int2Rat(1))>>,  \* -100 %, 0.01
      <<Future(Int2Rat(-2), Int2Rat(1))>>,                              \* -100 %, 2
      <<Future(Int2Rat(1), Undefined)>>,                                \* no notional
      <<Option("move_options", Int2Rat(1), Rat(1, 2), Int2Rat(1))>>,    \* no delta
      <<Future(Int2Rat(1), Int2Rat(1)), NullPosition>> }                \* malformed

\* The responses of the exchange to GET /v2/positions.
PositionResponses ==
    {[ok |-> FALSE, hasResult |-> FALSE, result |-> <<>>],
     [ok |-> TRUE, hasResult |-> FALSE, result |-> <<>>],
     [ok |-> TRUE, hasResult |-> TRUE, result |-> <<>>]}
    \cup {[ok |-> TRUE, hasResult |-> TRUE, result |-> l] : l \in PositionLists}

\* The settings the constructor reads from the environment: the defaults, and
\* an environment that sets both thresholds to 0.
DefaultSettings ==
    [deltaThreshold |-> Rat(15, 100), checkInterval |-> Int2Rat(60000),
     minHedgeSize |-> Rat(1, 100), ethFutureProductId |-> 27]
EnvSettings ==
    {DefaultSettings,
     [deltaThreshold |-> Zero, checkInterval |-> Int2Rat(1000),
      minHedgeSize |-> Zero, ethFutureProductId |-> 27]}

NewSettings(threshold, checkInterval, minHedge, productId) ==
    [deltaThreshold |-> threshold, checkInterval |-> checkInterval,
     minHedgeSize |-> minHedge, ethFutureProductId |-> productId]

\* The bodies POSTed to /api/settings.
SettingsRequests ==
    {NewSettings(Undefined, Undefined, Undefined, Undefined),
     NewSettings(Rat(1, 20), Undefined, Undefined, Undefined),
     NewSettings(Undefined, Int2Rat(5000), Undefined, Undefined),
     NewSettings(Rat(1, 5), Int2Rat(30000), Rat(1, 10), Undefined),
     NewSettings(Zero, Zero, Zero, Undefined),
     NewSettings(Rat(-1, 10), Int2Rat(-5), Int2Rat(-1), Undefined),
     NewSettings(Undefined, Undefined, Undefined, Int2Rat(99))}

\* --------------------------------------------------------- the behaviour

\* The TradingBot constructor, run at time t with the settings env.
constructor(env, t) ==
    [status |-> "stopped", currentDelta |-> Zero, ethValue |-> Zero,
     totalTrades |-> 0, lastCheck |-> Null, settings |-> env,
     deltaHistory |-> <<>>, trades |-> <<>>, logs |-> <<>>,
     interval |-> Null, timers |-> {}, nextTimerId |-> 1,
     cycles |-> {}, emitted |-> <<>>, orders |-> <<>>, now |-> t]

\* The handler a step ran: its name, the cycle it resumed (the time the cycle
\* began, 0 if it resumed none), the settings it was called with, the
\* answer of the exchange it resumed with, and, for a method called for its
\* value, the limit it was called with and the value it returned.
NoSettings == NewSettings(Undefined, Undefined, Undefined, Undefined)
NoAnswer == [ok |-> FALSE, hasResult |-> FALSE, result |-> <<>>]
Handled(handler) ==
    [handler |-> handler, cycle |-> 0, newSettings |-> NoSettings,
     answer |-> NoAnswer, limit |-> 0, returned |-> <<>>]

Init ==
    /\ \E env \in EnvSettings : Is(constructor(env, 0))
    /\ last = Handled("constructor")

\* The number of updateSettings calls since time 0: each ends with one log call.
Updates ==
    Cardinality({i \in 1..Len(emitted) :
        /\ emitted[i].name = "log"
        /\ emitted[i].time > 0
        /\ emitted[i].message.text = "Settings updated"})

\* The number of cycles begun since time 0: each begins with one log call.
Begun ==
    Cardinality({i \in 1..Len(emitted) :
        /\ emitted[i].name = "log"
        /\ emitted[i].time > 0
        /\ emitted[i].message.text = "Checking positions..."})

\* bot.start(): POST /api/bot/start, and the listen callback.
Start ==
    /\ now < MaxTime
    /\ Begun < MaxCycles
    /\ Becomes(start(Enter(World)))
    /\ last' = Handled("start")

\* bot.stop(): POST /api/bot/stop, and SIGTERM.
Stop ==
    /\ now < MaxTime
    /\ Becomes(stop(Enter(World)))
    /\ last' = Handled("stop")

\* bot.updateSettings(req.body): POST /api/settings.
UpdateSettings ==
    /\ now < MaxTime
    /\ Begun < MaxCycles
    /\ Updates < MaxUpdates
    /\ \E newSettings \in SettingsRequests :
          /\ Becomes(updateSettings(Enter(World), newSettings))
          /\ last' = [Handled("updateSettings") EXCEPT !.newSettings = newSettings]

\* An armed timer fires its callback.
TimerFire ==
    /\ now < MaxTime
    /\ Begun < MaxCycles
    /\ \E t \in timers : Becomes(checkAndHedge(Enter(World)))
    /\ last' = Handled("timer")

\* The exchange answers a position request (or it times out).
PositionsReturn ==
    /\ now < MaxTime
    /\ \E c \in cycles :
          /\ c.pc = "getPositions"
          /\ \E resp \in PositionResponses :
                /\ Becomes(checkAndHedgeResume(Enter(World), c, getPositions(resp)))
                /\ last' = [Handled("getPositions") EXCEPT !.cycle = c.started,
                                                        !.answer = resp]

\* The exchange answers an order request (or it fails or times out).
OrderReturn ==
    /\ now < MaxTime
    /\ \E c \in cycles :
          /\ c.pc = "placeFutureOrder"
          /\ \E posted \in BOOLEAN :
                /\ Becomes(executeHedgeResume(Enter(World), c, OrderResult(posted)))
                /\ last' = [Handled("placeFutureOrder") EXCEPT
                                !.cycle = c.started, !.answer.ok = posted]

Next ==
    \/ Start
    \/ Stop
    \/ UpdateSettings
    \/ TimerFire
    \/ PositionsReturn
    \/ OrderReturn

Spec == Init /\ [][Next]_vars

\* ------------------------------------------------- a bot that has run long

QuietList == <<Future(Int2Rat(2), Int2Rat(100))>>
HedgedList == <<Future(Int2Rat(-2), Int2Rat(1))>>

\* The state of a bot that was constructed with the default settings, started,
\* and has run k cycles one after the other (the immediate one and k - 1 timer
\* ticks); the first m of them hedged and their orders were accepted, the
\* others were within range; the next timer tick, at time 0, has begun a cycle
\* that is in flight.  Cycle i begins at CycleBegan(i), its positions return
\* one handler run later and its order, if it posts one, one run after that.
\* What was emitted and posted before time 0 is not kept.
CycleBegan(i, k, m) ==
    2 * (i - 1) + (IF i - 1 < m THEN i - 1 ELSE m) - (2 * k + m)

CycleInfo(i, m) ==
    calculatePortfolioDelta(IF i <= m THEN HedgedList ELSE QuietList)

CycleSnapshot(i, k, m) ==
    [deltaPercentage |-> CycleInfo(i, m).deltaPercentage,
     totalDelta |-> CycleInfo(i, m).totalDelta,
     ethValue |-> CycleInfo(i, m).ethValue,
     positionsCount |-> 1,
     createdAt |-> CycleBegan(i, k, m) + 1]

CycleTrade(i, k, m) ==
    [side |-> "buy",
     hedgeSize |-> RNeg(CycleInfo(i, m).totalDelta),
     currentDelta |-> CycleInfo(i, m).totalDelta,
     orderResponse |-> OrderResult(TRUE),
     createdAt |-> CycleBegan(i, k, m) + 2]

\* The j-th log entry (from 0) of cycle i.
CycleLog(i, j, k, m) ==
    LET info == CycleInfo(i, m)
        began == CycleBegan(i, k, m)
        entry(level, message, t) ==
            [level |-> level, message |-> message, createdAt |-> t]
    IN  CASE j = 0 -> entry("INFO", Msg("Checking positions...", <<>>), began)
          [] j = 1 -> entry("INFO",
                            Msg("Delta", <<Percent(info.deltaPercentage),
                                           toFixed(info.ethValue, 2)>>),
                            began + 1)
          [] j = 2 /\ i > m ->
                entry("INFO",
                      Msg("Delta within range", <<Percent(info.deltaPercentage)>>),
                      began + 1)
          [] j = 2 /\ i <= m ->
                entry("WARNING",
                      Msg("Delta threshold breached!", <<Percent(info.totalDelta)>>),
                      began + 1)
          [] j = 3 ->
                entry("INFO",
                      Msg("Executing hedge: BUY",
                          <<toFixed(RAbs(info.totalDelta), 4)>>),
                      began + 1)
          [] j = 4 -> entry("INFO", Msg("Hedge successful!", <<>>), began + 2)

\* The p-th log entry written since construction, and their number.
LogWritten(p, k, m) ==
    IF p = 1
    THEN [level |-> "INFO", message |-> Msg("Personal bot started", <<>>),
          createdAt |-> CycleBegan(1, k, m)]
    ELSE IF p - 2 < 5 * m
         THEN CycleLog((p - 2) \div 5 + 1, (p - 2) % 5, k, m)
         ELSE CycleLog(m + (p - 2 - 5 * m) \div 3 + 1, (p - 2 - 5 * m) % 3, k, m)

LogsWritten(k, m) == 5 * m + 3 * (k - m) + 2

Least(a, b) == IF a < b THEN a ELSE b

LongRun(k, m) ==
    [status |-> "running",
     currentDelta |-> CycleInfo(k, m).deltaPercentage,
     ethValue |-> CycleInfo(k, m).ethValue,
     totalTrades |-> m,
     lastCheck |-> Some(CycleBegan(k, k, m) + 1),
     settings |-> DefaultSettings,
     deltaHistory |-> [i \in 1..Least(k, HistoryCap) |->
                          CycleSnapshot(k - Least(k, HistoryCap) + i, k, m)],
     trades |-> [i \in 1..Least(m, TradesCap) |-> CycleTrade(m + 1 - i, k, m)],
     logs |-> [i \in 1..Least(LogsWritten(k, m), LogsCap) |->
                  LogWritten(LogsWritten(k, m) + 1 - i, k, m)],
     interval |-> Some(1),
     timers |-> {[id |-> 1, delay |-> DefaultSettings.checkInterval]},
     nextTimerId |-> 2,
     cycles |-> {Suspended(0, "getPositions", "", Zero, Zero)},
     emitted |-> <<>>, orders |-> <<>>, now |-> 0]

\* Runs that leave the log one entry short of its capacity, the history and
\* the trades one entry short of theirs, and all three full.
LongRuns ==
    {<<(LogsCap - 5) \div 3, 1>>,
     <<HistoryCap - 1, TradesCap - 1>>,
     <<HistoryCap, TradesCap>>}

InitLong ==
    /\ \E r \in LongRuns : Is(LongRun(r[1], r[2]))
    /\ last = Handled("timer")

NextLong ==
    \/ now < MaxLongTime /\ Start
    \/ now < MaxLongTime /\ Stop
    \/ now < MaxLongTime /\ UpdateSettings
    \/ now < MaxLongTime /\ TimerFire
    \/ now < MaxLongTime /\ PositionsReturn
    \/ now < MaxLongTime /\ OrderReturn

SpecLong == InitLong /\ [][NextLong]_vars

\* The same state, reached by running the handlers.

\* The one cycle in flight in w runs to its end: the exchange answers with
\* the list, and accepts the order if the cycle posts one.
Finish(w, list) ==
    LET c1 == CHOOSE c \in w.cycles : TRUE
        w1 == checkAndHedgeResume(Enter(w), c1,
                getPositions([ok |-> TRUE, hasResult |-> TRUE, result |-> list]))
    IN  IF w1.cycles = {} THEN w1
        ELSE executeHedgeResume(Enter(w1), CHOOSE c \in w1.cycles : TRUE,
                                OrderResult(TRUE))

\* A timer tick begins a cycle and the cycle runs to its end.
TickAndFinish(w, list) == Finish(checkAndHedge(Enter(w)), list)

\* The cycles numbered from..to run one after the other, beginning in w; the
\* cycles numbered up to m hedge.
RECURSIVE Ticks(_, _, _, _)
Ticks(w, from, to, m) ==
    LET mid == (from + to) \div 2
        half == Ticks(w, from, mid, m)
    IN  IF from = to
        THEN TickAndFinish(w, IF from <= m THEN HedgedList ELSE QuietList)
        ELSE IF half.cycles = {} THEN Ticks(half, mid + 1, to, m) ELSE half

\* The bot constructed at time t with the default settings, started, and left
\* to run k cycles one after the other (the immediate one and k - 1 timer
\* ticks), of which the first m hedged.
RanFrom(t, k, m) ==
    LET first == Finish(start(Enter(constructor(DefaultSettings, t))),
                        IF 1 <= m THEN HedgedList ELSE QuietList)
    IN  IF k = 1 THEN first ELSE Ticks(first, 2, k, m)

\* The same, with one more timer tick at time 0, whose cycle is in flight.
\* What was emitted and posted before time 0 is not kept.
Ran(k, m) ==
    LET before == RanFrom(-(2 * k + m + 1), k, m)
    IN  [checkAndHedge(Enter(before)) EXCEPT !.emitted = <<>>, !.orders = <<>>]

\* Every long run the checked behaviours begin in is a state the handlers reach.
LongRunsAreReached ==
    \A r \in LongRuns : LongRun(r[1], r[2]) = Ran(r[1], r[2])

\* ------------------------------------------------------------ properties

\* What a step did.
ComputedStep == last'.handler = "getPositions" /\ lastCheck' = Some(now')
ResumedStep == last'.handler \in {"getPositions", "placeFutureOrder"}
SubmittedStep == Len(orders') = Len(orders) + 1
Newest(h) == h[Len(h)]

\* Everything but the clock and the record of the last handler.
Observable ==
    <<status, currentDelta, ethValue, totalTrades, lastCheck, settings,
      deltaHistory, trades, logs, interval, timers, nextTimerId, cycles,
      emitted, orders>>

\* C1: a step in which a cycle computes an exposure summary posts an order if
\* and only if |deltaPercentage| >= deltaThreshold and |-totalDelta| >=
\* minHedgeSize, and no other step posts an order.
C1_HedgeIffBothThresholds ==
    [][ /\ ComputedStep =>
              (SubmittedStep <=>
                  /\ RGe(RAbs(currentDelta'), settings'.deltaThreshold)
                  /\ RGe(RAbs(RNeg(Newest(deltaHistory').totalDelta)),
                         settings'.minHedgeSize))
        /\ SubmittedStep => ComputedStep ]_vars

\* A cycle has just measured an exposure exactly at a non-zero threshold and
\* posted its order.
C1_HedgedAtThreshold ==
    /\ last.handler = "getPositions"
    /\ lastCheck = Some(now)
    /\ settings.deltaThreshold # Zero
    /\ RAbs(currentDelta) = settings.deltaThreshold
    /\ Len(orders) = 1
    /\ \E c \in cycles : c.pc = "placeFutureOrder" /\ c.started = last.cycle

\* The trades after one more is recorded on top of t.
Recorded(t, trade) ==
    <<trade>> \o (IF Len(t) = TradesCap THEN SubSeq(t, 1, TradesCap - 1) ELSE t)

\* C2: an order placement that returns success puts one trade on the trade
\* buffer and adds one to totalTrades; one that fails writes an ERROR log entry
\* and leaves both unchanged; no other step changes either.
C2_TradeIffOrderSucceeded ==
    [][ /\ (last'.handler = "placeFutureOrder" /\ last'.answer.ok) =>
              /\ totalTrades' = totalTrades + 1
              /\ trades' = Recorded(trades, trades'[1])
              /\ trades'[1].createdAt = now'
              /\ trades'[1].orderResponse.success
        /\ (last'.handler = "placeFutureOrder" /\ ~last'.answer.ok) =>
              /\ UNCHANGED <<totalTrades, trades>>
              /\ logs'[1].level = "ERROR"
              /\ logs'[1].createdAt = now'
        /\ last'.handler # "placeFutureOrder" =>
              UNCHANGED <<totalTrades, trades>> ]_vars

\* An order placement has just returned success and its trade is recorded.
C2_TradeRecorded ==
    /\ last.handler = "placeFutureOrder"
    /\ last.answer.ok
    /\ totalTrades = 1
    /\ Len(trades) = 1
    /\ trades[1].createdAt = now

\* C3: a cycle that resumes while status is "stopped" leaves currentDelta,
\* the notional, lastCheck, the history, the trades and totalTrades unchanged
\* and posts no order.
C3_StoppedCycleDiscarded ==
    [][ (ResumedStep /\ status = "stopped") =>
            UNCHANGED <<currentDelta, ethValue, lastCheck, deltaHistory, trades,
                        totalTrades, orders>> ]_vars

\* C4: when a cycle applies the exposure it measured, no other cycle has
\* applied one since that cycle began: of two cycles in flight at the same time
\* at most one applies its result.
C4_NoOverlappingApply ==
    [][ ComputedStep =>
            \A i \in 1..Len(deltaHistory) :
                deltaHistory[i].createdAt <= last'.cycle ]_vars

\* C5: start() while running and stop() while stopped change nothing.
C5_StartStopNoOps ==
    [][ ( \/ last'.handler = "start" /\ status = "running"
          \/ last'.handler = "stop" /\ status = "stopped" ) =>
            UNCHANGED Observable ]_vars

StoppedEntry(t) ==
    [level |-> "INFO", message |-> Msg("Bot stopped", <<>>), createdAt |-> t]

\* C5 as amended: start() while running changes nothing; stop() while stopped
\* writes the log entry "Bot stopped", emits it, and changes nothing else.
C5_StartNoOpStopOnlyLogs ==
    [][ /\ (last'.handler = "start" /\ status = "running") =>
              UNCHANGED Observable
        /\ (last'.handler = "stop" /\ status = "stopped") =>
              /\ UNCHANGED <<status, currentDelta, ethValue, totalTrades,
                             lastCheck, settings, deltaHistory, trades, interval,
                             timers, nextTimerId, cycles, orders>>
              /\ logs' = <<StoppedEntry(now')>> \o
                            (IF Len(logs) = LogsCap
                             THEN SubSeq(logs, 1, LogsCap - 1) ELSE logs)
              /\ emitted' = Append(emitted,
                    [name |-> "log", level |-> "INFO",
                     message |-> Msg("Bot stopped", <<>>), time |-> now']) ]_vars

\* stop() has just run on a bot that stop() had already stopped.
C5_StoppedTwice ==
    /\ last.handler = "stop"
    /\ status = "stopped"
    /\ Len(logs) >= 2
    /\ logs[1] = StoppedEntry(now)
    /\ logs[2].message.text = "Bot stopped"
    /\ logs[2].createdAt = now - 1

\* C6: start() while stopped sets status to "running", writes the log entry
\* "Personal bot started", arms one timer (the only one armed) with the current
\* checkInterval as its delay, and begins one cycle in the same handler run.
C6_StartFromStopped ==
    [][ (last'.handler = "start" /\ status = "stopped") =>
            /\ status' = "running"
            /\ Len(logs') >= 2
            /\ logs'[2] = [level |-> "INFO",
                           message |-> Msg("Personal bot started", <<>>),
                           createdAt |-> now']
            /\ ~IsNull(interval')
            /\ timers' = {[id |-> interval'[1], delay |-> settings.checkInterval]}
            /\ settings' = settings
            /\ cycles' = cycles \cup
                  {Suspended(now', "getPositions", "", Zero, Zero)}
            /\ \A c \in cycles : c.started < now' ]_vars

\* start() has just run on the stopped bot.
C6_Started ==
    /\ last.handler = "start"
    /\ status = "running"
    /\ Cardinality(timers) = 1
    /\ \E c \in cycles : c.started = now /\ c.pc = "getPositions"
    /\ logs[2].message.text = "Personal bot started"
    /\ logs[2].createdAt = now

\* C7: when updateSettings changes checkInterval while status is "running",
\* afterwards exactly one timer is armed, its delay is the new checkInterval,
\* no timer armed before is armed any more, and exactly one cycle has begun.
C7_IntervalChangeRearms ==
    [][ ( /\ last'.handler = "updateSettings"
          /\ status = "running"
          /\ settings'.checkInterval # settings.checkInterval ) =>
            /\ status' = "running"
            /\ ~IsNull(interval')
            /\ timers' = {[id |-> interval'[1],
                           delay |-> settings'.checkInterval]}
            /\ timers' \cap timers = {}
            /\ \A t \in timers : t.id # interval'[1]
            /\ cycles' = cycles \cup
                  {Suspended(now', "getPositions", "", Zero, Zero)}
            /\ \A c \in cycles : c.started < now' ]_vars

\* updateSettings has just changed checkInterval on a running bot.
C7_Rearmed ==
    /\ last.handler = "updateSettings"
    /\ status = "running"
    /\ settings.checkInterval = Int2Rat(5000)
    /\ timers = {[id |-> 2, delay |-> Int2Rat(5000)]}
    /\ Cardinality({c \in cycles : c.pc = "getPositions"}) = 2

\* C8: the history never holds more than 100 snapshots and holds them oldest
\* first; a cycle that computes a summary appends its snapshot at the tail and,
\* at capacity, drops the snapshot at the head and no other; no other step
\* changes the history.
C8_HistoryBounded ==
    /\ [](/\ Len(deltaHistory) <= HistoryCap
          /\ \A i \in 1..Len(deltaHistory) - 1 :
                deltaHistory[i].createdAt < deltaHistory[i + 1].createdAt)
    /\ [][ /\ ComputedStep =>
                 /\ Newest(deltaHistory').createdAt = now'
                 /\ deltaHistory' =
                       (IF Len(deltaHistory) = HistoryCap
                        THEN Tail(deltaHistory) ELSE deltaHistory)
                       \o <<Newest(deltaHistory')>>
           /\ ~ComputedStep => deltaHistory' = deltaHistory ]_vars

\* Two cycles in flight at the same time have each appended a snapshot to the
\* full history.
C8_EvictedByOverlappingCycles ==
    /\ Len(deltaHistory) = HistoryCap
    /\ last.handler = "getPositions"
    /\ deltaHistory[HistoryCap].createdAt = now
    /\ deltaHistory[HistoryCap - 1].createdAt > last.cycle
    /\ deltaHistory[HistoryCap - 2].createdAt < 0
    /\ totalTrades >= TradesCap

\* C9: the trade buffer never holds more than 50 trades and holds them newest
\* first; a successful order placement puts its trade at the front and, at
\* capacity, drops the trade at the tail and no other; no other step changes
\* the trade buffer.
C9_TradesBounded ==
    /\ [](/\ Len(trades) <= TradesCap
          /\ \A i \in 1..Len(trades) - 1 :
                trades[i].createdAt > trades[i + 1].createdAt)
    /\ [][ /\ (last'.handler = "placeFutureOrder" /\ last'.answer.ok) =>
                 /\ trades'[1].createdAt = now'
                 /\ trades' = <<trades'[1]>> \o
                       (IF Len(trades) = TradesCap
                        THEN SubSeq(trades, 1, TradesCap - 1) ELSE trades)
           /\ ~(last'.handler = "placeFutureOrder" /\ last'.answer.ok) =>
                 trades' = trades ]_vars

\* A trade has just been put on the full trade buffer.
C9_EvictedOldestTrade ==
    /\ Len(trades) = TradesCap
    /\ totalTrades = TradesCap + 1
    /\ last.handler = "placeFutureOrder"
    /\ trades[1].createdAt = now
    /\ trades[2].createdAt < 0

\* The log events emitted by a step, oldest first.
EmittedLogs ==
    LET new == SubSeq(emitted', Len(emitted) + 1, Len(emitted'))
    IN  SelectSeq(new, LAMBDA e : e.name = "log")

\* The log after the entries of the events evs are put on l one by one.
RECURSIVE Logged(_, _)
Logged(l, evs) ==
    IF evs = <<>> THEN l
    ELSE Logged(<<[level |-> evs[1].level, message |-> evs[1].message,
                   createdAt |-> evs[1].time]>>
                \o (IF Len(l) = LogsCap THEN SubSeq(l, 1, LogsCap - 1) ELSE l),
                Tail(evs))

\* C10: the log never holds more than 200 entries and holds them newest
\* first; every log call of every handler puts its entry at the front and, at
\* capacity, drops the entry at the tail and no other.
C10_LogsBounded ==
    /\ [](/\ Len(logs) <= LogsCap
          /\ \A i \in 1..Len(logs) - 1 :
                logs[i].createdAt >= logs[i + 1].createdAt)
    /\ [][ /\ logs' = Logged(logs, EmittedLogs)
           /\ \A i \in 1..Len(EmittedLogs) : EmittedLogs[i].time = now' ]_vars

\* Log calls of start, stop, updateSettings and a cycle have dropped entries
\* from the tail of the full log.
C10_EvictedOldestLogs ==
    /\ Len(logs) = LogsCap
    /\ logs[1].createdAt = now
    /\ Len(SelectSeq(emitted, LAMBDA e : e.name = "log")) > 5
    /\ logs[LogsCap].createdAt < 0
    /\ \E i \in 1..LogsCap : logs[i].message.text = "Settings updated"
    /\ \E i \in 1..LogsCap : logs[i].message.text = "Bot stopped"
    /\ \E i \in 1..LogsCap : logs[i].message.text = "Personal bot started"
                             /\ logs[i].createdAt > 0

\* ------------------------------------------------------ the failed fetch

\* A step in which a cycle resumes from a position fetch that failed.
FetchFailedStep == last'.handler = "getPositions" /\ ~last'.answer.ok

\* C11: a cycle whose position fetch fails writes one log entry and ends: the
\* step leaves currentDelta, ethValue, lastCheck, totalTrades, the delta
\* history and the trade buffer as they were, posts no order, emits nothing
\* but its log entry, and leaves the cycle suspended at no further await.
C11_FailedFetchAborts ==
    [][FetchFailedStep =>
          /\ UNCHANGED <<currentDelta, ethValue, lastCheck, totalTrades,
                         deltaHistory, trades, orders>>
          /\ Len(EmittedLogs) = 1
          /\ Len(emitted') = Len(emitted) + 1
          /\ logs'[1].createdAt = now'
          /\ \A c \in cycles' : c \in cycles /\ c.started # last'.cycle]_vars

\* A fetch failed in a bot that had computed an exposure before.
C11_FetchFailed ==
    /\ last.handler = "getPositions"
    /\ ~last.answer.ok
    /\ ~IsNull(lastCheck)
    /\ lastCheck[1] < now
    /\ deltaHistory # <<>>

\* The log entry checkAndHedge writes when it finds no positions to hedge.
NoPositionsEntry(t) ==
    [level |-> "INFO", message |-> Msg("No open positions", <<>>), createdAt |-> t]

\* C12: a failed position fetch is told apart from a fetch that returns no
\* positions: the cycle of a failed fetch never writes the "No open positions"
\* log entry that the cycle of an empty fetch writes.
C12_FailureLoggedDistinctly ==
    [][FetchFailedStep => logs'[1] # NoPositionsEntry(now')]_vars

\* ----------------------------------------------------------- the settings

\* C13: in every reachable state the settings are valid: checkInterval > 0,
\* minHedgeSize >= 0 and deltaThreshold >= 0 (an update with an invalid value
\* is rejected).
C13_SettingsStayValid ==
    /\ RGt(settings.checkInterval, Zero)
    /\ RGe(settings.minHedgeSize, Zero)
    /\ RGe(settings.deltaThreshold, Zero)

\* A field of a settings body that the body provides.
Provided(field) == field # Undefined

\* C14: updateSettings(newSettings) sets every field the body provides --
\* deltaThreshold and minHedgeSize also when the value provided is 0,
\* checkInterval, and ethFutureProductId -- and leaves the others unchanged.
C14_UpdateSetsProvidedFields ==
    [][last'.handler = "updateSettings" =>
          LET newSettings == last'.newSettings
          IN  /\ settings'.deltaThreshold =
                    IF Provided(newSettings.deltaThreshold)
                    THEN newSettings.deltaThreshold ELSE settings.deltaThreshold
              /\ settings'.minHedgeSize =
                    IF Provided(newSettings.minHedgeSize)
                    THEN newSettings.minHedgeSize ELSE settings.minHedgeSize
              /\ Truthy(newSettings.checkInterval) =>
                    settings'.checkInterval = newSettings.checkInterval
              /\ ~Provided(newSettings.checkInterval) =>
                    settings'.checkInterval = settings.checkInterval
              /\ settings'.ethFutureProductId =
                    IF Provided(newSettings.ethFutureProductId)
                    THEN newSettings.ethFutureProductId.n
                    ELSE settings.ethFutureProductId]_vars

\* ------------------------------------------------------- the broadcast

\* The deltaUpdate events a step emits.
EmittedDeltaUpdates ==
    LET new == SubSeq(emitted', Len(emitted) + 1, Len(emitted'))
    IN  SelectSeq(new, LAMBDA e : e.name = "deltaUpdate")

\* A step in which a cycle resumes from a fetch that succeeded with a list of
\* well-formed positions (the empty list among them).
FetchedStep ==
    /\ last'.handler = "getPositions"
    /\ last'.answer.ok
    /\ \A i \in 1..Len(getPositions(last'.answer).list) :
          ~getPositions(last'.answer).list[i].null

\* C15: every cycle that fetches its positions emits exactly one deltaUpdate
\* event, with the deltaPercentage and the notional of the fetched list (the
\* empty list included) and the time of the cycle's check; the rest of the
\* cycle, after the order returns, emits no second one.
C15_OneDeltaUpdatePerCycle ==
    [][ /\ FetchedStep =>
              LET deltaInfo ==
                      calculatePortfolioDelta(getPositions(last'.answer).list)
              IN  EmittedDeltaUpdates =
                      <<[name |-> "deltaUpdate",
                         delta |-> deltaInfo.deltaPercentage,
                         ethValue |-> deltaInfo.ethValue,
                         lastCheck |-> Some(now')]>>
        /\ last'.handler = "placeFutureOrder" => EmittedDeltaUpdates = <<>>
      ]_vars

\* ------------------------------------------------------------ the orders

\* C16: every order request posted to the exchange has a size strictly greater
\* than 0, whatever the settings (deltaThreshold 0 and minHedgeSize 0 among
\* them) and whatever the exposure (totalDelta 0 included).
C16_OrderSizePositive ==
    \A i \in 1..Len(orders) : RGt(orders[i].size, Zero)

\* ------------------------------------------- the exposure calculation alone

\* calculatePortfolioDelta reads nothing but its argument, so it is also run
\* on its own, on every list of at most MaxPositions of these positions:
\* futures and options long and short, a position without a mark price, one
\* without a delta, one without a size, one of another product type and one
\* without a product.
MaxPositions == 2

ExposurePositions ==
    { Future(Int2Rat(2), Int2Rat(100)),
      Future(Int2Rat(-1), Int2Rat(100)),
      Future(Int2Rat(1), Undefined),
      Future(Undefined, Int2Rat(100)),
      Option("call_options", Int2Rat(1), Rat(1, 2), Int2Rat(200)),
      Option("call_options", Int2Rat(-2), Rat(1, 4), Int2Rat(50)),
      Option("put_options", Int2Rat(1), Rat(-1, 2), Int2Rat(50)),
      Option("put_options", Int2Rat(3), Undefined, Int2Rat(10)),
      Option("move_options", Int2Rat(1), Rat(1, 2), Int2Rat(10)),
      Option("", Int2Rat(1), Rat(1, 2), Int2Rat(10)) }

ExposureLists ==
    UNION {[1..n -> ExposurePositions] : n \in 0..MaxPositions}

\* bot.calculatePortfolioDelta(positions), called for its value.
CalculatePortfolioDelta ==
    /\ \E positions \in ExposureLists :
          last' = [Handled("calculatePortfolioDelta") EXCEPT
                      !.answer = [ok |-> TRUE, hasResult |-> TRUE,
                                  result |-> positions],
                      !.returned = calculatePortfolioDelta(positions)]
    /\ UNCHANGED <<Observable, now>>

NextExposure == CalculatePortfolioDelta

SpecExposure == Init /\ [][NextExposure]_vars

\* The reference: the exposure summary as section 4.2 of the specification
\* defines it, summed from the first position on.  A field the exchange left
\* out counts as 0.
ReferenceContribution(position) ==
    CASE position.product_type = "future" -> OrZero(position.size)
      [] position.product_type = "call_options" ->
            RMul(OrZero(position.size), OrZero(position.delta))
      [] position.product_type = "put_options" ->
            RMul(OrZero(position.size), OrZero(position.delta))
      [] OTHER -> Zero

RECURSIVE ReferenceTotalDelta(_)
ReferenceTotalDelta(positions) ==
    IF positions = <<>> THEN Zero
    ELSE RAdd(ReferenceContribution(Head(positions)),
              ReferenceTotalDelta(Tail(positions)))

RECURSIVE ReferenceNotional(_)
ReferenceNotional(positions) ==
    IF positions = <<>> THEN Zero
    ELSE RAdd(RMul(RAbs(OrZero(Head(positions).size)),
                   OrZero(Head(positions).mark_price)),
              ReferenceNotional(Tail(positions)))

ReferenceExposure(positions) ==
    LET totalDelta == ReferenceTotalDelta(positions)
        notional == ReferenceNotional(positions)
    IN  [threw |-> FALSE,
         deltaPercentage |-> IF RGt(notional, Zero)
                             THEN RDiv(totalDelta, notional) ELSE Zero,
         totalDelta |-> totalDelta,
         ethValue |-> notional]

\* C17: for every list of positions calculatePortfolioDelta returns the
\* reference: totalDelta is the sum of size over the futures and of size*delta
\* over the call and put options, ethValue is the sum of |size|*mark_price,
\* and deltaPercentage is totalDelta/ethValue when ethValue > 0 and 0 when it
\* is 0, as it is for the empty list.
C17_ExposureIsReference ==
    last.handler = "calculatePortfolioDelta" =>
        last.returned = ReferenceExposure(last.answer.result)

\* The example of the specification: a future of 2 at 100 and a call of 1 with
\* delta 0.5 at 200 give totalDelta 2.5, notional 400 and 0.625 %.
C17_ExampleComputed ==
    /\ last.handler = "calculatePortfolioDelta"
    /\ last.answer.result =
          <<Future(Int2Rat(2), Int2Rat(100)),
            Option("call_options", Int2Rat(1), Rat(1, 2), Int2Rat(200))>>
    /\ last.returned.totalDelta = Rat(5, 2)
    /\ last.returned.ethValue = Int2Rat(400)
    /\ last.returned.deltaPercentage = Rat(1, 160)

\* C18: every order the bot posts opposes the exposure of the positions the
\* cycle fetched: its size is |totalDelta|, its side is "sell" when totalDelta
\* > 0 and "buy" when totalDelta < 0, and its product is the
\* ethFutureProductId of the settings at that moment.
C18_OrderOpposesExposure ==
    [][SubmittedStep =>
          LET order == orders'[Len(orders')]
              totalDelta == ReferenceTotalDelta(getPositions(last'.answer).list)
          IN  /\ last'.handler = "getPositions"
              /\ SubSeq(orders', 1, Len(orders)) = orders
              /\ order.size = RAbs(totalDelta)
              /\ RGt(totalDelta, Zero) => order.side = "sell"
              /\ RLt(totalDelta, Zero) => order.side = "buy"
              /\ order.product_id = settings'.ethFutureProductId
              /\ order.product_id = settings.ethFutureProductId]_vars

\* A sell order and a buy order have been posted, for a long and for a short
\* exposure.
C18_SoldAndBought ==
    /\ Len(orders) = 2
    /\ {orders[1].side, orders[2].side} = {"sell", "buy"}
    /\ orders[1].size # orders[2].size

\* C19: a cycle posts at most one order.  The step in which it resumes from
\* getPositions posts at most one; the step in which it resumes from the order
\* placement, failed or successful, posts none, fetches no positions again,
\* leaves the measured exposure as it was, and ends the cycle.
C19_OneOrderPerCycle ==
    [][ /\ last'.handler = "getPositions" =>
              /\ Len(orders') <= Len(orders) + 1
              /\ \A c \in cycles' :
                    c.started = last'.cycle => c.pc = "placeFutureOrder"
        /\ last'.handler = "placeFutureOrder" =>
              /\ orders' = orders
              /\ \A c \in cycles' : c \in cycles /\ c.started # last'.cycle
              /\ UNCHANGED <<currentDelta, ethValue, lastCheck, deltaHistory>>
      ]_vars

\* An order placement failed, and the cycle that made it is over; its order
\* is the only one posted.
C19_FailedAndOver ==
    /\ last.handler = "placeFutureOrder"
    /\ ~last.answer.ok
    /\ Len(orders) = 1
    /\ \A c \in cycles : c.started # last.cycle
    /\ cycles # {}

\* ------------------------------------------------------ the accessors alone

\* The accessors read the buffers of a bot and change nothing, so they are run
\* on their own: on a bot just constructed (empty buffers) and on the bots of
\* the long runs (buffers partly full, one short of full, and full), with
\* every limit from 0 to the capacity of the buffer.
InitQuery ==
    /\ \/ \E env \in EnvSettings : Is(constructor(env, 0))
       \/ \E r \in LongRuns : Is(LongRun(r[1], r[2]))
    /\ last = Handled("constructor")

\* bot.getRecentTrades(limit).
GetRecentTrades ==
    /\ \E limit \in 0..TradesCap :
          last' = [Handled("getRecentTrades") EXCEPT
                      !.limit = limit,
                      !.returned = getRecentTrades(World, limit)]
    /\ UNCHANGED <<Observable, now>>

\* bot.getDeltaHistory(limit).
GetDeltaHistory ==
    /\ \E limit \in 0..HistoryCap :
          last' = [Handled("getDeltaHistory") EXCEPT
                      !.limit = limit,
                      !.returned = getDeltaHistory(World, limit)]
    /\ UNCHANGED <<Observable, now>>

\* bot.getRecentLogs(limit).
GetRecentLogs ==
    /\ \E limit \in 0..LogsCap :
          last' = [Handled("getRecentLogs") EXCEPT
                      !.limit = limit,
                      !.returned = getRecentLogs(World, limit)]
    /\ UNCHANGED <<Observable, now>>

NextQuery ==
    \/ GetRecentTrades
    \/ GetDeltaHistory
    \/ GetRecentLogs

SpecQuery == InitQuery /\ [][NextQuery]_vars

\* The n most recent entries of a buffer kept newest first, and of one kept
\* oldest first (all of them when it holds fewer than n).
NewestOfNewestFirst(buffer, n) == SubSeq(buffer, 1, Least(n, Len(buffer)))
NewestOfOldestFirst(buffer, n) ==
    SubSeq(buffer, Len(buffer) - Least(n, Len(buffer)) + 1, Len(buffer))

\* C20: for every limit n from 0 to the capacity of the buffer,
\* getDeltaHistory(n), getRecentTrades(n) and getRecentLogs(n) return exactly
\* the min(n, size) most recent entries of their buffer -- none for n = 0 --
\* and leave the buffer as it was.
C20_AccessorsReturnMostRecent ==
    [][ /\ last'.handler = "getDeltaHistory" =>
              /\ last'.returned = NewestOfOldestFirst(deltaHistory, last'.limit)
              /\ UNCHANGED deltaHistory
        /\ last'.handler = "getRecentTrades" =>
              /\ last'.returned = NewestOfNewestFirst(trades, last'.limit)
              /\ UNCHANGED trades
        /\ last'.handler = "getRecentLogs" =>
              /\ last'.returned = NewestOfNewestFirst(logs, last'.limit)
              /\ UNCHANGED logs
      ]_vars

\* ------------------------------------------------ failures inside a cycle

\* A step in which a cycle resumes from a fetch that succeeded and throws
\* while it computes the exposure (a null entry in the list), and one in which
\* it resumes from an order placement that failed.
ComputeThrewStep ==
    /\ last'.handler = "getPositions"
    /\ last'.answer.ok
    /\ \E i \in 1..Len(getPositions(last'.answer).list) :
          getPositions(last'.answer).list[i].null
OrderFailedStep == last'.handler = "placeFutureOrder" /\ ~last'.answer.ok

\* C21: no failure inside a cycle -- a failed fetch, a failed order placement,
\* an exception thrown while computing -- changes status or touches the
\* timer: a bot that was running is running after it, with the same timer
\* armed, so that the timer can start the next cycle.
C21_FailureKeepsSchedule ==
    [][(FetchFailedStep \/ OrderFailedStep \/ ComputeThrewStep) =>
          /\ UNCHANGED <<status, interval, timers, nextTimerId, settings>>
          /\ status = "running" =>
                /\ status' = "running"
                /\ \E t \in timers' : interval' = Some(t.id)
          /\ \A c \in cycles' : c.started # last'.cycle]_vars

\* The computation of a running bot threw on a malformed list; the bot wrote
\* the error to its log and is running with its timer armed.
C21_ThrewAndRunning ==
    /\ last.handler = "getPositions"
    /\ last.answer.ok
    /\ \E i \in 1..Len(last.answer.result) : last.answer.result[i].null
    /\ logs[1].level = "ERROR"
    /\ status = "running"
    /\ timers # {}

\* ------------------------------------------------ cycles under fair answers

\* Both requests of DeltaAPI carry `timeout: 10000`, so every awaited call
\* returns: with a response, or with the failure axios raises at the timeout.
\* The run begins when the listen callback has started the bot (time 0, its
\* first cycle in flight); the bot is driven for MaxLiveTime handler runs and
\* then left to the answers of the exchange.  A cycle needs at most two of
\* them, so the clock never reaches LiveBound while a cycle is in flight.
MaxLiveTime == 1
LiveBound == MaxLiveTime + 2 * (MaxCycles + 1)

InitLive ==
    /\ Is([start(constructor(DefaultSettings, 0)) EXCEPT !.emitted = <<>>])
    /\ last = Handled("start")

\* The settings bodies, of SettingsRequests, that bear on a cycle in flight:
\* a new interval, which restarts the bot and begins another cycle, and a
\* new threshold.
LiveSettingsRequests ==
    {NewSettings(Undefined, Int2Rat(5000), Undefined, Undefined),
     NewSettings(Rat(1, 20), Undefined, Undefined, Undefined)}

\* The answers to a position request that lead a cycle to each of its ends:
\* a failure, no positions, an exposure within range, a hedge too small, a
\* hedge, and a malformed list.
LiveResponses ==
    {[ok |-> FALSE, hasResult |-> FALSE, result |-> <<>>],
     [ok |-> TRUE, hasResult |-> TRUE, result |-> <<>>],
     [ok |-> TRUE, hasResult |-> TRUE, result |->
         <<Future(Int2Rat(2), Int2Rat(100)),
           Option("call_options", Int2Rat(1), Rat(1, 2), Int2Rat(200))>>],
     [ok |-> TRUE, hasResult |-> TRUE, result |->
         <<Option("put_options", Rat(1, 200), Int2Rat(-1), Int2Rat(1))>>],
     [ok |-> TRUE, hasResult |-> TRUE, result |->
         <<Future(Int2Rat(-2), Int2Rat(1))>>],
     [ok |-> TRUE, hasResult |-> TRUE, result |->
         <<Future(Int2Rat(1), Int2Rat(1)), NullPosition>>]}

\* The exchange answers the position request of the cycle begun at time t.
PositionsAnswered(t) ==
    /\ now < LiveBound
    /\ \E c \in cycles :
          /\ c.started = t
          /\ c.pc = "getPositions"
          /\ \E resp \in LiveResponses :
                /\ Becomes(checkAndHedgeResume(Enter(World), c, getPositions(resp)))
                /\ last' = [Handled("getPositions") EXCEPT !.cycle = c.started,
                                                        !.answer = resp]

\* The exchange answers the order request of the cycle begun at time t.
OrderAnswered(t) ==
    /\ now < LiveBound
    /\ \E c \in cycles :
          /\ c.started = t
          /\ c.pc = "placeFutureOrder"
          /\ \E posted \in BOOLEAN :
                /\ Becomes(executeHedgeResume(Enter(World), c, OrderResult(posted)))
                /\ last' = [Handled("placeFutureOrder") EXCEPT
                                !.cycle = c.started, !.answer.ok = posted]

NextLive ==
    \/ now < MaxLiveTime /\ Start
    \/ now < MaxLiveTime /\ Stop
    \/ now < MaxLiveTime /\ UpdateSettings
                         /\ last'.newSettings \in LiveSettingsRequests
    \/ now < MaxLiveTime /\ TimerFire
    \/ \E t \in 0..MaxLiveTime : PositionsAnswered(t)
    \/ \E t \in 0..MaxLiveTime : OrderAnswered(t)

SpecLive ==
    /\ InitLive
    /\ [][NextLive]_vars
    /\ \A t \in 0..MaxLiveTime :
          WF_vars(PositionsAnswered(t)) /\ WF_vars(OrderAnswered(t))

\* The cycle begun at time t is suspended at an await.
InFlight(t) == \E c \in cycles : c.started = t

\* The log entries a cycle ends with.
CycleEnds ==
    {"Delta within range", "Hedge size too small", "Hedge successful!",
     "Hedge failed!", "No open positions", "Error"}

\* C22: every cycle that has begun finishes: while every request to the
\* exchange is answered or times out, a cycle suspended at an await leaves it
\* and reaches one of its ends (within range, too small, hedge successful,
\* hedge failed, no positions, error); none waits forever.
C22_CycleFinishes ==
    /\ \A t \in 0..MaxLiveTime : InFlight(t) ~> ~InFlight(t)
    /\ [][\A t \in 0..MaxLiveTime :
             (InFlight(t) /\ ~InFlight(t)') =>
                 /\ logs'[1].message.text \in CycleEnds
                 /\ logs'[1].createdAt = now']_vars

\* A cycle went through both awaits and is over, as every cycle begun is.
C22_HedgedAndOver ==
    /\ last.handler = "placeFutureOrder"
    /\ ~InFlight(last.cycle)
    /\ cycles = {}
    /\ Begun > 0

\* ---------------------------------------------------- the timer and status

\* C23: in every reachable state the recurring timer is armed if and only if
\* status is "running", at most one timer is armed, and it is the one
\* this.interval holds.
C23_TimerIffRunning ==
    /\ (timers # {}) <=> (status = "running")
    /\ Cardinality(timers) <= 1
    /\ \A t \in timers : interval = Some(t.id)
    /\ status = "stopped" => IsNull(interval)

\* The bot was started, restarted by an interval change, and its second timer
\* is the only one armed, at the new interval.
C23_OneTimerAfterRestart ==
    /\ status = "running"
    /\ last.handler = "updateSettings"
    /\ nextTimerId = 3
    /\ timers = {[id |-> 2, delay |-> settings.checkInterval]}

\* ------------------------------------------------------ the trade counter

\* A step in which an order placement returns success.
OrderSucceededStep == last'.handler = "placeFutureOrder" /\ last'.answer.ok

\* C24: in every reachable state, those reached by overlapping cycles among
\* them, the trade buffer holds min(totalTrades, 50) trades; totalTrades
\* never decreases: it grows by one in every step in which an order placement
\* returns success and is unchanged in every other step, so it counts the
\* successful placements.
C24_TradesCountSuccesses ==
    /\ [](Len(trades) = Least(totalTrades, TradesCap))
    /\ [][totalTrades' = totalTrades + (IF OrderSucceededStep THEN 1 ELSE 0)]_vars

\* The 51st order placement succeeded while another cycle was in flight: the
\* counter has passed the capacity of the full buffer.
C24_CountedPastCapacity ==
    /\ last.handler = "placeFutureOrder"
    /\ last.answer.ok
    /\ totalTrades = TradesCap + 1
    /\ Len(trades) = TradesCap
    /\ cycles # {}

=============================================================================
